---------------------------- MODULE Spec2Model ----------------------------
(***************************************************************************)
(* State-machine model of drivers/uio/uio_pci_generic.c (the MSI-X/eventfd *)
(* variant): probe, the UIO_MSIX_DATA ioctl (map_msix_eventfd), the MSI-X  *)
(* vector handler, release and remove.                                     *)
(*                                                                         *)
(* The control path is modelled statement by statement where another       *)
(* context can observe the intermediate state (interrupt handlers, a       *)
(* second ioctl caller); probe runs before the device is visible to anyone *)
(* and is a single step.                                                   *)
(***************************************************************************)
EXTENDS Integers, Sequences, FiniteSets, TLC

\* ------------------------------------------------------------------ bounds
\* Largest MSI-X vector count a modelled device reports.
MaxVecs == 2
\* Largest number of eventfd signals delivered in one behaviour.
MaxSignals == 1
\* Largest number of legacy-line handler invocations in one behaviour.
MaxLegacyIrqs == 3

\* ------------------------------------------------------------ value spaces
NULL == "NULL"
\* An ERR_PTR() value: non-NULL, not a valid object.
ERR_PTR == "ERR_PTR"
\* A pointer-sized value read from memory that holds no eventfd pointer.
WILD_PTR == "WILD_PTR"
\* The eventfd contexts of the consumer process.
Handles == {"A", "B"}
Ptrs == Handles \cup {NULL, ERR_PTR, WILD_PTR}

\* The consumer's file descriptor table: fd -> eventfd context.
FdTable == [fd \in {3, 4} |-> IF fd = 3 THEN "A" ELSE "B"]
\* A negative fd is the "disable" request.
Sentinel == -1
\* fd 9 is a descriptor that is not an eventfd.
UserFds == DOMAIN FdTable \cup {9, Sentinel}
\* Vector indices the consumer passes: the interface's domain is the
\* non-negative integers; the C type is int.
UserVectors == 0 .. MaxVecs
AnyIntVectors == -1 .. MaxVecs

\* pdev->irq of a device without a legacy line.
NoIrq == 0
\* Linux irq number the platform assigns to MSI-X table entry i.
MsixVector(i) == i + 1
\* The irq numbers of the model: 1..MaxVecs can belong to the device's
\* vectors, 0 is an irq that belongs to no vector of the device.
Irqs == 0 .. MaxVecs

Callers == {1, 2}

VARIABLES
  phase,       \* "unclaimed" | "probe_failed" | "claimed" | "removing" | "removed" | "remove_oops"
  probed,      \* probe(): [ret, init_msix, in] -- what it returned, what err
               \* held after line 228, and the platform's answers to it
  pdev,        \* struct pci_dev: the device and its bus-level state
  gdev,        \* struct uio_pci_generic_dev allocation: "none" | "live" | "freed"
  msix_info,   \* gdev->msix_info: [entries, evts, nvecs]
  buffer,      \* the kzalloc'ed table memory: "none" | "live" | "freed"
  entries,     \* contents of the msix_entry array:  i -> [vector, entry]
  evts,        \* contents of the eventfd_ctx* array: i -> pointer
  irqaction,   \* irq -> dev_id of the registered uio_msix_handler action, or NULL
  running,     \* irq -> arg of the handler invocation in flight, or NULL
  refs,        \* handle -> references the driver holds (fdget minus put)
  signals,     \* handle -> eventfd_signal() calls received
  call,        \* caller -> the ioctl it is in: [pc, fd, vector, irq, old, evt, ret, puts]
  rm,          \* remove(): [pc, i, irq, evt]
  consumer,    \* the uio file: "none" | "open" | "released" | "closed"
  fault,       \* "none" | "irq_oops" (handler dereferenced a bad pointer) | "oob_write"
  intx         \* the legacy line's history: what irqhandler() returned, one
               \* entry per invocation, and "rearm" for each re-arm

vars == << phase, probed, pdev, gdev, msix_info, buffer, entries, evts,
           irqaction, running, refs, signals, call, rm, consumer, fault,
           intx >>

EmptyTable == [i \in {} |-> NULL]
ZeroInfo == [entries |-> NULL, evts |-> NULL, nvecs |-> 0]
IdleCall == [pc |-> "idle", fd |-> 0, vector |-> 0, irq |-> 0, old |-> NULL,
             evt |-> NULL, ret |-> "none", puts |-> << >>]
NotProbed == [ret |-> "none", init_msix |-> "none",
              in |-> [enable |-> FALSE, gdev |-> FALSE, kzalloc |-> FALSE,
                      msix |-> FALSE, register |-> FALSE]]
IdleRm == [pc |-> "none", i |-> 0, irq |-> 0, evt |-> NULL]

\* The devices the driver may be asked to claim, before the claim.
Devices ==
  [ enabled : {FALSE}, is_busmaster : {FALSE}, msix_enabled : {FALSE},
    msi_enabled : {FALSE},
    irq : {NoIrq, 9}, intx_mask_supported : BOOLEAN,
    msix_vec_count : -1 .. MaxVecs,
    intx_pending : {FALSE}, intx_disabled : {FALSE} ]

Init ==
  /\ phase = "unclaimed"
  /\ probed = NotProbed
  /\ pdev \in Devices
  /\ gdev = "none"
  /\ msix_info = ZeroInfo
  /\ buffer = "none"
  /\ entries = EmptyTable
  /\ evts = EmptyTable
  /\ irqaction = [q \in Irqs |-> NULL]
  /\ running = [q \in Irqs |-> NULL]
  /\ refs = [h \in Handles |-> 0]
  /\ signals = [h \in Handles |-> 0]
  /\ call = [t \in Callers |-> IdleCall]
  /\ rm = IdleRm
  /\ consumer = "none"
  /\ fault = "none"
  /\ intx = << >>

\* ------------------------------------------------- platform (kernel) calls
pci_enable_device(p) == [p EXCEPT !.enabled = TRUE]
pci_disable_device(p) == [p EXCEPT !.enabled = FALSE, !.is_busmaster = FALSE]
pci_clear_master(p) == [p EXCEPT !.is_busmaster = FALSE]
\* pci_disable_msi() switches off MSI, the single-table mechanism; MSI-X is
\* switched off by pci_disable_msix().
pci_disable_msi(p) == [p EXCEPT !.msi_enabled = FALSE]
pci_disable_msix(p) == [p EXCEPT !.msix_enabled = FALSE]
\* The results eventfd_ctx_fdget(fd) can have: the context of an eventfd, or
\* a failure value.  The driver tests the result against NULL.
eventfd_ctx_fdget(fd) ==
  IF fd \in DOMAIN FdTable THEN {FdTable[fd]} ELSE {NULL, ERR_PTR}
\* Whether a pointer may be dereferenced.
Valid(ptr) == ptr \in Handles

\* ------------------------------------------------------------------ probe
NoTable == [info |-> ZeroInfo, buffer |-> "none", entries |-> EmptyTable,
            evts |-> EmptyTable]

\* Lines 142-143: the freshly zeroed msix_entry array with its entry numbers.
init_entries_shifted(nvecs) ==
  [i \in 0 .. nvecs - 1 |-> [vector |-> 0, entry |-> i + 1]]
init_entries(nvecs) == [i \in 0 .. nvecs - 1 |-> [vector |-> 0, entry |-> i]]
\* pci_enable_msix_exact() on success: every entry gets its irq number.
pci_enable_msix_exact(ents) ==
  [i \in DOMAIN ents |-> [ents[i] EXCEPT !.vector = MsixVector(ents[i].entry)]]

\* pci_generic_init_msix(): the table it leaves behind, the device and the
\* return value.  kzallocOk and enableOk are the platform's answers.
pci_generic_init_msix(p, kzallocOk, enableOk) ==
  LET nvecs == p.msix_vec_count IN
  IF nvecs = 0 THEN
    [ret |-> "-EINVAL", pdev |-> p, tab |-> NoTable]
  ELSE IF nvecs < 0 \/ ~kzallocOk THEN
    \* a negative count is converted to a size no allocation satisfies
    [ret |-> "-ENOMEM", pdev |-> p, tab |-> NoTable]
  ELSE IF enableOk THEN
    [ret |-> "0", pdev |-> [p EXCEPT !.msix_enabled = TRUE],
     tab |-> [info |-> [entries |-> "buffer", evts |-> "buffer", nvecs |-> nvecs],
              buffer |-> "live",
              entries |-> pci_enable_msix_exact(init_entries(nvecs)),
              evts |-> [i \in 0 .. nvecs - 1 |-> NULL]]]
  ELSE
    \* lines 146-149: the buffer is freed and entries reset; evts and nvecs
    \* keep their values
    [ret |-> "-ENOSPC", pdev |-> p,
     tab |-> [info |-> [entries |-> NULL, evts |-> "buffer", nvecs |-> nvecs],
              buffer |-> "freed", entries |-> EmptyTable, evts |-> EmptyTable]]

\* err_alloc / err_verify (lines 250-253).
probe_err_verify_leak(p) == p
probe_err_verify(p) == pci_disable_device(p)

\* err_register (lines 244-253): what is left of the table and the device.
probe_err_register(p, tab) ==
  [pdev |-> probe_err_verify(p),
   tab |-> IF tab.info.entries # NULL
             THEN [tab EXCEPT !.buffer = "freed", !.entries = EmptyTable,
                              !.evts = EmptyTable]
             ELSE tab]

\* probe(): the platform's answers are in.enable, in.gdev, in.kzalloc,
\* in.msix, in.register.
probe(p, in) ==
  IF ~in.enable THEN
    [ret |-> "-EIO", init_msix |-> "none", phase |-> "probe_failed", pdev |-> p,
     gdev |-> "none", tab |-> NoTable]
  ELSE LET p1 == pci_enable_device(p) IN
  IF p1.irq # NoIrq /\ ~p1.intx_mask_supported THEN
    [ret |-> "-ENODEV", init_msix |-> "none", phase |-> "probe_failed",
     pdev |-> probe_err_verify(p1), gdev |-> "none", tab |-> NoTable]
  ELSE IF ~in.gdev THEN
    [ret |-> "-ENOMEM", init_msix |-> "none", phase |-> "probe_failed",
     pdev |-> probe_err_verify(p1), gdev |-> "none", tab |-> NoTable]
  ELSE LET m == IF p1.irq # NoIrq
                  THEN [ret |-> "none", pdev |-> p1, tab |-> NoTable]
                  ELSE pci_generic_init_msix(p1, in.kzalloc, in.msix)
       IN
  \* line 237 overwrites err with uio_register_device()'s result
  IF in.register THEN
    [ret |-> "0", init_msix |-> m.ret, phase |-> "claimed", pdev |-> m.pdev,
     gdev |-> "live", tab |-> m.tab]
  ELSE LET u == probe_err_register(m.pdev, m.tab) IN
    [ret |-> "-ENXIO", init_msix |-> m.ret, phase |-> "probe_failed",
     pdev |-> u.pdev, gdev |-> "freed", tab |-> u.tab]

ProbeInputs == [enable : BOOLEAN, gdev : BOOLEAN, kzalloc : BOOLEAN,
                msix : BOOLEAN, register : BOOLEAN]

Probe ==
  /\ phase = "unclaimed"
  /\ \E in \in ProbeInputs :
       LET r == probe(pdev, in) IN
         /\ phase' = r.phase
         /\ probed' = [ret |-> r.ret, init_msix |-> r.init_msix, in |-> in]
         /\ pdev' = r.pdev
         /\ gdev' = r.gdev
         /\ msix_info' = r.tab.info
         /\ buffer' = r.tab.buffer
         /\ entries' = r.tab.entries
         /\ evts' = r.tab.evts
  /\ UNCHANGED << intx, irqaction, running, refs, signals, call, rm, consumer, fault >>

\* ------------------------------------------------------ consumer, release
\* The consumer opens the uio device file.
Open ==
  /\ phase = "claimed"
  /\ consumer # "open"
  /\ fault # "irq_oops"
  /\ consumer' = "open"
  /\ UNCHANGED << intx, phase, probed, pdev, gdev, msix_info, buffer, entries, evts,
                  irqaction, running, refs, signals, call, rm, fault >>

\* The consumer switches bus-mastering on through the device's config space.
SetMaster ==
  /\ phase = "claimed"
  /\ consumer = "open"
  /\ fault # "irq_oops"
  /\ ~pdev.is_busmaster
  /\ pdev' = [pdev EXCEPT !.is_busmaster = TRUE]
  /\ UNCHANGED << intx, phase, probed, gdev, msix_info, buffer, entries, evts,
                  irqaction, running, refs, signals, call, rm, consumer, fault >>

InCall(t) == call[t].pc \notin {"idle", "dead"}

\* release(): lines 161-175.
release_keeps_master(p) == p
release_deconfigures(p) == pci_disable_device(pci_disable_msix(pci_clear_master(p)))
release(p) == pci_clear_master(p)

\* The consumer closes the file; no ioctl of it is still running.
Release ==
  /\ phase = "claimed"
  /\ consumer = "open"
  /\ fault # "irq_oops"
  /\ \A t \in Callers : ~InCall(t)
  /\ pdev' = release(pdev)
  /\ consumer' = "released"
  /\ UNCHANGED << intx, phase, probed, gdev, msix_info, buffer, entries, evts,
                  irqaction, running, refs, signals, call, rm, fault >>

\* The consumer closes the file after uio_unregister_device() (line 264) has
\* detached the binding from the file: release() is not invoked.
CloseUnregistered ==
  /\ phase \in {"removing", "removed", "remove_oops"}
  /\ consumer = "open"
  /\ consumer' = "closed"
  /\ UNCHANGED << intx, phase, probed, pdev, gdev, msix_info, buffer, entries,
                  evts, irqaction, running, refs, signals, call, rm, fault >>

\* --------------------------------------------------------- interrupt path
Delivered == LET S[hs \in SUBSET Handles] ==
                   IF hs = {} THEN 0
                   ELSE LET h == CHOOSE x \in hs : TRUE
                        IN signals[h] + S[hs \ {h}]
             IN S[Handles]
InFlight == Cardinality({q \in Irqs : running[q] # NULL})

\* An interrupt arrives on irq q and the registered action's handler is
\* entered with the action's dev_id (uio_msix_handler, line 55).
IrqEnter(q) ==
  /\ fault # "irq_oops"
  /\ pdev.msix_enabled
  /\ irqaction[q] # NULL
  /\ running[q] = NULL
  /\ Delivered + InFlight < MaxSignals
  /\ running' = [running EXCEPT ![q] = irqaction[q]]
  /\ UNCHANGED << intx, phase, probed, pdev, gdev, msix_info, buffer, entries, evts,
                  irqaction, refs, signals, call, rm, consumer, fault >>

\* uio_msix_handler, lines 57-58: eventfd_signal(evt, 1).
uio_msix_handler_twice(sig, evt) ==
  IF Valid(evt) THEN [sig EXCEPT ![evt] = @ + 2] ELSE sig
uio_msix_handler(sig, evt) ==
  IF Valid(evt) THEN [sig EXCEPT ![evt] = @ + 1] ELSE sig

IrqSignal(q) ==
  /\ running[q] # NULL
  /\ fault # "irq_oops"
  /\ signals' = uio_msix_handler(signals, running[q])
  /\ fault' = IF Valid(running[q]) THEN fault ELSE "irq_oops"
  /\ running' = [running EXCEPT ![q] = NULL]
  /\ UNCHANGED << intx, phase, probed, pdev, gdev, msix_info, buffer, entries, evts,
                  irqaction, refs, call, rm, consumer >>

\* ------------------------------------------------------ legacy-line path
IRQ_NONE == "IRQ_NONE"
IRQ_HANDLED == "IRQ_HANDLED"

\* pci_check_and_mask_intx(): when the device's pending bit is set, the
\* device is masked and the answer is TRUE; a masked device shows no pending
\* bit.  When the bit is clear nothing is written.
pci_check_and_mask_intx(p) ==
  IF p.intx_pending
    THEN [masked |-> TRUE,
          pdev |-> [p EXCEPT !.intx_disabled = TRUE, !.intx_pending = FALSE]]
    ELSE [masked |-> FALSE, pdev |-> p]

\* irqhandler(), lines 179-188: its return value and the device after it.
irqhandler_claims_all(p) ==
  [ret |-> IRQ_HANDLED, pdev |-> pci_check_and_mask_intx(p).pdev]
irqhandler(p) ==
  LET c == pci_check_and_mask_intx(p)
  IN [ret |-> IF ~c.masked THEN IRQ_NONE ELSE IRQ_HANDLED, pdev |-> c.pdev]

\* The handler is installed for devices with a legacy line only (lines
\* 222-225) and is registered from uio_register_device() (line 237) to
\* uio_unregister_device() (line 264).
LegacyArmed == phase = "claimed" /\ pdev.irq # NoIrq

\* The device raises its interrupt: its pending bit becomes set unless the
\* device is masked.
IntxRaise ==
  /\ LegacyArmed
  /\ ~pdev.intx_disabled
  /\ ~pdev.intx_pending
  /\ pdev' = [pdev EXCEPT !.intx_pending = TRUE]
  /\ UNCHANGED << intx, phase, probed, gdev, msix_info, buffer, entries, evts,
                  irqaction, running, refs, signals, call, rm, consumer, fault >>

\* The consumer re-arms the device: it clears the mask through the device's
\* config space.
IntxRearm ==
  /\ LegacyArmed
  /\ consumer = "open"
  /\ pdev.intx_disabled
  /\ pdev' = [pdev EXCEPT !.intx_disabled = FALSE]
  /\ intx' = Append(intx, "rearm")
  /\ UNCHANGED << phase, probed, gdev, msix_info, buffer, entries, evts,
                  irqaction, running, refs, signals, call, rm, consumer, fault >>

\* The number of handler invocations so far.
Invocations == Cardinality({i \in DOMAIN intx : intx[i] # "rearm"})

\* A pulse of the shared line, from this device or from another one on the
\* line: the platform invokes irqhandler().
LegacyIrq ==
  /\ LegacyArmed
  /\ Invocations < MaxLegacyIrqs
  /\ intx' = Append(intx, irqhandler(pdev).ret)
  /\ pdev' = irqhandler(pdev).pdev
  /\ UNCHANGED << phase, probed, gdev, msix_info, buffer, entries, evts,
                  irqaction, running, refs, signals, call, rm, consumer, fault >>

\* free_irq(irq, dev_id): removes the action registered with dev_id and
\* returns once no invocation of it is in flight; an irq without such an
\* action is left alone.
free_irq(acts, irq, dev_id) ==
  IF acts[irq] = dev_id THEN [acts EXCEPT ![irq] = NULL] ELSE acts
FreeIrqReady(irq, dev_id) == irqaction[irq] = dev_id => running[irq] = NULL

\* request_irq(irq, uio_msix_handler, 0, "UIO IRQ", dev_id): the line is not
\* shared, so it is refused while an action is registered on it; the
\* platform may refuse it for reasons of its own (granted = FALSE).
request_irq_ok(acts, irq, granted) == acts[irq] = NULL /\ granted
eventfd_ctx_put(r, evt) == [r EXCEPT ![evt] = @ - 1]

\* ------------------------------------------ map_msix_eventfd (the ioctl)
\* What gdev->msix_info.entries[v].vector and gdev->msix_info.evts[v] read
\* (lines 76-77).  An index outside the arrays reads memory that holds no
\* table entry: any irq number, and a pointer-sized value that is NULL or not.
ReadIrq(v) == IF v \in DOMAIN entries THEN {entries[v].vector} ELSE Irqs
ReadEvt(v) == IF v \in DOMAIN evts THEN {evts[v]} ELSE {NULL, WILD_PTR}

\* Line 73.
vector_rejected(v, nvecs) == v >= nvecs

\* Lines 67-77: the call's state after the checks and the two reads.
map_enter(fd, v, irq, evt) ==
  IF fd < 0 THEN
    [IdleCall EXCEPT !.fd = fd, !.vector = v, !.ret = "0"]
  ELSE IF vector_rejected(v, msix_info.nvecs) THEN
    [IdleCall EXCEPT !.fd = fd, !.vector = v, !.ret = "-EINVAL"]
  ELSE IF msix_info.entries = NULL THEN
    \* line 76 dereferences a NULL entries pointer
    [IdleCall EXCEPT !.pc = "dead", !.fd = fd, !.vector = v, !.ret = "OOPS"]
  ELSE
    [pc |-> IF evt # NULL THEN "free_irq" ELSE "fdget",
     fd |-> fd, vector |-> v, irq |-> irq, old |-> evt, evt |-> evt,
     ret |-> "busy", puts |-> << >>]

\* The driver dropped more references on a context than it took: the
\* context's count has reached zero under the consumer's descriptor and the
\* context is freed memory.  A run is followed no further than that.
Underflow == \E h \in Handles : refs[h] < 0

BindEnter(t, fd, v) ==
  /\ phase = "claimed"
  /\ consumer = "open"
  /\ fault # "irq_oops"
  /\ ~Underflow
  /\ call[t].pc = "idle"
  /\ \E irq \in ReadIrq(v), evt \in ReadEvt(v) :
       call' = [call EXCEPT ![t] = map_enter(fd, v, irq, evt)]
  /\ pdev' = IF fd < 0 THEN pci_disable_msi(pdev) ELSE pdev
  /\ UNCHANGED << intx, phase, probed, gdev, msix_info, buffer, entries, evts,
                  irqaction, running, refs, signals, rm, consumer, fault >>

\* Line 79.
BindFreeIrq(t) ==
  /\ call[t].pc = "free_irq"
  /\ fault # "irq_oops"
  /\ FreeIrqReady(call[t].irq, call[t].evt)
  /\ irqaction' = free_irq(irqaction, call[t].irq, call[t].evt)
  /\ call' = [call EXCEPT ![t].pc = "put_old"]
  /\ UNCHANGED << intx, phase, probed, pdev, gdev, msix_info, buffer, entries, evts,
                  running, refs, signals, rm, consumer, fault >>

\* Line 80 on a valid context: the reference count and the call's record of
\* the references it dropped.
put_old_skipped(r, c) == [refs |-> r, puts |-> c.puts]
put_old(r, c) ==
  [refs |-> eventfd_ctx_put(r, c.evt), puts |-> Append(c.puts, c.evt)]

\* Line 80.  A pointer that is no eventfd context faults in the kernel.
BindPutOld(t) ==
  /\ call[t].pc = "put_old"
  /\ fault # "irq_oops"
  /\ LET c == call[t] IN
       IF Valid(c.evt)
         THEN /\ refs' = put_old(refs, c).refs
              /\ call' = [call EXCEPT ![t].pc = "clear",
                                      ![t].puts = put_old(refs, c).puts]
         ELSE /\ refs' = refs
              /\ call' = [call EXCEPT ![t].pc = "dead", ![t].ret = "OOPS"]
  /\ UNCHANGED << intx, phase, probed, pdev, gdev, msix_info, buffer, entries, evts,
                  irqaction, running, signals, rm, consumer, fault >>

\* Line 80 on a wild pointer whose target happens to be mapped: the
\* decrement lands in memory that is not the driver's.
BindPutWild(t) ==
  /\ call[t].pc = "put_old"
  /\ fault # "irq_oops"
  /\ call[t].evt = WILD_PTR
  /\ fault' = "oob_write"
  /\ call' = [call EXCEPT ![t].pc = "clear"]
  /\ UNCHANGED << intx, phase, probed, pdev, gdev, msix_info, buffer, entries, evts,
                  irqaction, running, refs, signals, rm, consumer >>

\* A store to gdev->msix_info.evts[v] (lines 81 and 94).
store_evt_dropped(tab, v, ptr) == tab
store_evt(tab, v, ptr) == IF v \in DOMAIN tab THEN [tab EXCEPT ![v] = ptr] ELSE tab
StoreFault(v) == IF v \in DOMAIN evts THEN fault ELSE "oob_write"

\* Line 81.
BindClear(t) ==
  /\ call[t].pc = "clear"
  /\ fault # "irq_oops"
  /\ evts' = store_evt(evts, call[t].vector, NULL)
  /\ fault' = StoreFault(call[t].vector)
  /\ call' = [call EXCEPT ![t].pc = "fdget"]
  /\ UNCHANGED << intx, phase, probed, pdev, gdev, msix_info, buffer, entries,
                  irqaction, running, refs, signals, rm, consumer >>

\* Lines 84-86.
after_fdget(c, r) ==
  IF r = NULL THEN [c EXCEPT !.pc = "idle", !.evt = r, !.ret = "-EINVAL"]
  ELSE [c EXCEPT !.pc = "request_irq", !.evt = r]

BindFdget(t) ==
  /\ call[t].pc = "fdget"
  /\ fault # "irq_oops"
  /\ \E r \in eventfd_ctx_fdget(call[t].fd) :
       /\ call' = [call EXCEPT ![t] = after_fdget(call[t], r)]
       /\ refs' = IF Valid(r) THEN [refs EXCEPT ![r] = @ + 1] ELSE refs
  /\ UNCHANGED << intx, phase, probed, pdev, gdev, msix_info, buffer, entries, evts,
                  irqaction, running, signals, rm, consumer, fault >>

\* Lines 88-92: the call's state and the reference count after request_irq.
after_request_irq(c, r, ok) ==
  IF ok THEN [call |-> [c EXCEPT !.pc = "store"], refs |-> r]
  ELSE IF Valid(c.evt)
    THEN [call |-> [c EXCEPT !.pc = "idle", !.ret = "-EBUSY",
                             !.puts = Append(c.puts, c.evt)],
          refs |-> eventfd_ctx_put(r, c.evt)]
    ELSE [call |-> [c EXCEPT !.pc = "dead", !.ret = "OOPS"], refs |-> r]

BindRequestIrq(t) ==
  /\ call[t].pc = "request_irq"
  /\ fault # "irq_oops"
  /\ \E granted \in BOOLEAN :
       LET c == call[t]
           ok == request_irq_ok(irqaction, c.irq, granted)
           a == after_request_irq(c, refs, ok)
       IN /\ irqaction' = IF ok THEN [irqaction EXCEPT ![c.irq] = c.evt]
                          ELSE irqaction
          /\ call' = [call EXCEPT ![t] = a.call]
          /\ refs' = a.refs
  /\ UNCHANGED << intx, phase, probed, pdev, gdev, msix_info, buffer, entries, evts,
                  running, signals, rm, consumer, fault >>

\* Lines 94-95.
BindStore(t) ==
  /\ call[t].pc = "store"
  /\ fault # "irq_oops"
  /\ evts' = store_evt(evts, call[t].vector, call[t].evt)
  /\ fault' = StoreFault(call[t].vector)
  /\ call' = [call EXCEPT ![t].pc = "idle", ![t].ret = "0"]
  /\ UNCHANGED << intx, phase, probed, pdev, gdev, msix_info, buffer, entries,
                  irqaction, running, refs, signals, rm, consumer >>

\* ----------------------------------------------------------------- remove
\* Line 264 and the test of line 267.
RemoveBegin ==
  /\ phase = "claimed"
  /\ fault # "irq_oops"
  /\ \A t \in Callers : ~InCall(t)
  /\ phase' = "removing"
  /\ rm' = [IdleRm EXCEPT !.pc = IF msix_info.entries # NULL THEN "loop"
                                 ELSE "finish"]
  /\ UNCHANGED << intx, probed, pdev, gdev, msix_info, buffer, entries, evts,
                  irqaction, running, refs, signals, call, consumer, fault >>

\* Lines 268-271: the loop test and the reads of one slot.
remove_next(r, nvecs) ==
  IF r.i >= nvecs THEN [r EXCEPT !.pc = "finish"]
  ELSE IF evts[r.i] # NULL
    THEN [r EXCEPT !.pc = "free_irq", !.irq = entries[r.i].vector,
                   !.evt = evts[r.i]]
    ELSE [r EXCEPT !.i = @ + 1]

RemoveLoop ==
  /\ rm.pc = "loop"
  /\ fault # "irq_oops"
  /\ rm' = remove_next(rm, msix_info.nvecs)
  /\ UNCHANGED << intx, phase, probed, pdev, gdev, msix_info, buffer, entries, evts,
                  irqaction, running, refs, signals, call, consumer, fault >>

\* Line 272.
remove_skip_free_irq(acts, r) == acts
remove_free_irq(acts, r) == free_irq(acts, r.irq, r.evt)

RemoveFreeIrq ==
  /\ rm.pc = "free_irq"
  /\ fault # "irq_oops"
  /\ FreeIrqReady(rm.irq, rm.evt)
  /\ irqaction' = remove_free_irq(irqaction, rm)
  /\ rm' = [rm EXCEPT !.pc = "put"]
  /\ UNCHANGED << intx, phase, probed, pdev, gdev, msix_info, buffer, entries, evts,
                  running, refs, signals, call, consumer, fault >>

\* Lines 273-274; a pointer that is no eventfd context faults at line 273.
RemovePut ==
  /\ rm.pc = "put"
  /\ fault # "irq_oops"
  /\ IF Valid(rm.evt)
       THEN /\ refs' = eventfd_ctx_put(refs, rm.evt)
            /\ evts' = store_evt(evts, rm.i, NULL)
            /\ rm' = [rm EXCEPT !.pc = "loop", !.i = @ + 1]
            /\ phase' = phase
       ELSE /\ refs' = refs
            /\ evts' = evts
            /\ rm' = [rm EXCEPT !.pc = "dead"]
            /\ phase' = "remove_oops"
  /\ UNCHANGED << intx, probed, pdev, gdev, msix_info, buffer, entries,
                  irqaction, running, signals, call, consumer, fault >>

\* Lines 277-283.
remove_finish(p, tab) ==
  IF tab.info.entries # NULL
    THEN [pdev |-> pci_disable_device(pci_disable_msix(p)),
          tab |-> [info |-> [tab.info EXCEPT !.entries = NULL],
                   buffer |-> "freed", entries |-> EmptyTable,
                   evts |-> EmptyTable]]
    ELSE [pdev |-> pci_disable_device(p), tab |-> tab]

RemoveFinish ==
  /\ rm.pc = "finish"
  /\ fault # "irq_oops"
  /\ LET r == remove_finish(pdev, [info |-> msix_info, buffer |-> buffer,
                                   entries |-> entries, evts |-> evts])
     IN /\ pdev' = r.pdev
        /\ msix_info' = r.tab.info
        /\ buffer' = r.tab.buffer
        /\ entries' = r.tab.entries
        /\ evts' = r.tab.evts
  /\ gdev' = "freed"
  /\ phase' = "removed"
  /\ rm' = [rm EXCEPT !.pc = "done"]
  /\ UNCHANGED << intx, probed, irqaction, running, refs, signals, call, consumer,
                  fault >>

\* ---------------------------------------------------------- specifications
Ioctl(t, fds, vectors) ==
  \/ \E fd \in fds, v \in vectors : BindEnter(t, fd, v)
  \/ BindFreeIrq(t)
  \/ BindPutOld(t)
  \/ BindClear(t)
  \/ BindFdget(t)
  \/ BindRequestIrq(t)
  \/ BindStore(t)

Lifecycle ==
  \/ Probe
  \/ Open
  \/ SetMaster
  \/ Release
  \/ CloseUnregistered
  \/ RemoveBegin
  \/ RemoveLoop
  \/ RemoveFreeIrq
  \/ RemovePut
  \/ RemoveFinish

Interrupts ==
  \/ \E q \in Irqs : IrqEnter(q) \/ IrqSignal(q)
  \/ IntxRaise
  \/ IntxRearm
  \/ LegacyIrq

\* One ioctl caller at a time, vector indices from the interface's domain.
Next == Lifecycle \/ Interrupts \/ Ioctl(1, UserFds, UserVectors)
Spec == Init /\ [][Next]_vars

\* Two threads of the consumer issue ioctls on the same file.
NextConc == Lifecycle \/ Interrupts \/ \E t \in Callers : Ioctl(t, DOMAIN FdTable, {0})
SpecConc == Init /\ [][NextConc]_vars

\* One caller that may pass any int as the vector index.
NextAnyInt == Probe \/ Open \/ Interrupts \/ Ioctl(1, UserFds, AnyIntVectors) \/ BindPutWild(1)
SpecAnyInt == Init /\ [][NextAnyInt]_vars

\* ------------------------------------------------------------------ claims
\* The irqs on which the vector handler registered with handle h is
\* registered or executing.
LiveHandlers(h) == {q \in Irqs : irqaction[q] = h \/ running[q] = h}

\* C1: in every interleaving of binds, rebinds, teardown and vector
\* interrupts, no reference on a handle is released while a vector handler
\* registered with that handle is still registered or executing: every such
\* handler is backed by a reference the driver still holds.
C1_NoReleaseWhileHandlerLive ==
  \A h \in Handles :
     LiveHandlers(h) # {} => refs[h] >= Cardinality(LiveHandlers(h))

\* Caller t's last ioctl was a rebind of a slot from one handle to another
\* that returned 0, and no teardown has begun since.
RebindDone(t) ==
  /\ phase = "claimed"
  /\ call[t].pc = "idle"
  /\ call[t].ret = "0"
  /\ call[t].fd >= 0
  /\ call[t].old \in Handles
  /\ call[t].evt \in Handles
  /\ call[t].old # call[t].evt

\* C2: once a rebind of a vector from handle A to handle C has returned 0,
\* the vector's handler is registered with C, no invocation with A is in
\* flight, the rebind dropped exactly one reference, A's, and every firing of
\* the vector signals C and not A.
C2_RebindSupersedes ==
  /\ [](RebindDone(1) =>
          /\ irqaction[call[1].irq] = call[1].evt
          /\ evts[call[1].vector] = call[1].evt
          /\ running[call[1].irq] \in {NULL, call[1].evt}
          /\ call[1].puts = << call[1].old >>)
  /\ [][ (RebindDone(1) /\ running[call[1].irq] # NULL
                        /\ running'[call[1].irq] = NULL)
           => /\ signals'[call[1].evt] = signals[call[1].evt] + 1
              /\ signals'[call[1].old] = signals[call[1].old] ]_vars

\* A rebind from A to C has returned and the vector has fired since: its
\* handler is executing with C.
C2_Witness == RebindDone(1) /\ running[call[1].irq] = call[1].evt

\* Caller t's ioctl has come back (or died in the kernel).
Returned(t) == call[t].pc \in {"idle", "dead"} /\ call[t].ret # "none"
OutOfRange(v) == v < 0 \/ v >= msix_info.nvecs

\* C3: a bind with a non-sentinel handle and a vector index outside
\* 0 <= index < table length (a negative index included) returns the
\* out-of-range error from the range check and changes no slot, no handler
\* registration and no handle reference.
C3_OutOfRangeRejected ==
  [][ \A t \in Callers :
        ( /\ call[t].pc = "idle"
          /\ call'[t] # call[t]
          /\ call'[t].fd >= 0
          /\ OutOfRange(call'[t].vector) )
        => /\ call'[t].pc = "idle"
           /\ call'[t].ret = "-EINVAL"
           /\ UNCHANGED << evts, entries, irqaction, refs >> ]_vars

\* Caller t's last ioctl named an in-range vector of a live table and a
\* descriptor that resolves to no eventfd, and no teardown has begun since.
InvalidHandleCall(t) ==
  /\ phase = "claimed"
  /\ Returned(t)
  /\ buffer = "live"
  /\ call[t].fd >= 0
  /\ call[t].fd \notin DOMAIN FdTable
  /\ call[t].vector \in DOMAIN evts

\* C4: a bind on an in-range vector with a descriptor that resolves to no
\* notification handle fails with the invalid-handle error and leaves the
\* slot as it was: what was bound is still bound and still registered, and no
\* handler is registered with an invalid handle.
C4_InvalidHandleLeavesSlot ==
  \A t \in Callers :
    InvalidHandleCall(t) =>
      /\ call[t].ret = "-EINVAL"
      /\ evts[call[t].vector] = call[t].old
      /\ irqaction[call[t].irq] = call[t].old
      /\ \A q \in Irqs : irqaction[q] \in Handles \cup {NULL}

\* C5: when a device without a legacy line is claimed and the platform
\* rejects the requested vector count, the claim fails and the binding is not
\* registered with the exposer.
C5_RejectedVectorsFailClaim ==
  (pdev.irq = NoIrq /\ probed.init_msix = "-ENOSPC")
    => (probed.ret # "0" /\ phase = "probe_failed")

\* C6: every failing claim leaves the device as it was before the claim:
\* disabled at the bus level, vector delivery disabled, no table memory
\* allocated.
C6_FailedClaimUnwinds ==
  phase = "probe_failed"
    => (~pdev.enabled /\ ~pdev.msix_enabled /\ buffer # "live")

\* C7: claiming a device that has a legacy line but no pending/mask
\* inspection fails with -ENODEV (once the bus-level enable that precedes the
\* test has succeeded), creates and registers no binding, and leaves the
\* device disabled at the bus level.
C7_UnsupportedDeviceRefused ==
  (phase # "unclaimed" /\ pdev.irq # NoIrq /\ ~pdev.intx_mask_supported)
    => /\ phase = "probe_failed"
       /\ gdev = "none"
       /\ ~pdev.enabled
       /\ probed.ret # "0"
       /\ probed.in.enable => probed.ret = "-ENODEV"

C7_Witness ==
  /\ pdev.irq # NoIrq
  /\ ~pdev.intx_mask_supported
  /\ probed.in.enable
  /\ probed.ret = "-ENODEV"

\* The claim succeeded in vector mode and no teardown has begun.
VectorMode == phase = "claimed" /\ pdev.irq = NoIrq /\ probed.init_msix = "0"

\* C8: a successful claim in vector mode of a device that reports N >= 1
\* vectors yields a table of exactly N slots with hardware entries 0..N-1,
\* every slot empty and no handler registered until the first bind; the
\* table's length stays N under every sequence of binds.
C8_TableShape ==
  VectorMode =>
    LET N == pdev.msix_vec_count IN
      /\ N >= 1
      /\ msix_info.nvecs = N
      /\ buffer = "live"
      /\ DOMAIN entries = 0 .. N - 1
      /\ DOMAIN evts = 0 .. N - 1
      /\ \A i \in 0 .. N - 1 : entries[i].entry = i
      /\ (\A t \in Callers : call[t].ret = "none")
           => /\ \A i \in 0 .. N - 1 : evts[i] = NULL
              /\ \A q \in Irqs : irqaction[q] = NULL

\* A table of MaxVecs slots after a bind filled one of them.
C8_Witness ==
  /\ VectorMode
  /\ msix_info.nvecs = MaxVecs
  /\ call[1].pc = "idle"
  /\ call[1].ret = "0"
  /\ \E i \in DOMAIN evts : evts[i] \in Handles

\* C9, as stated: after release returns bus-mastering is off, no slot holds
\* a handle and no vector handler is registered.
C9_ReleaseUnbindsAll ==
  (phase = "claimed" /\ consumer = "released")
    => /\ ~pdev.is_busmaster
       /\ \A i \in DOMAIN evts : evts[i] = NULL
       /\ \A q \in Irqs : irqaction[q] = NULL

\* C9, amended: release switches bus-mastering off and does nothing else:
\* bus-mastering stays off while the file is closed, and the release step
\* leaves every slot, handler registration, handle reference and the
\* vector delivery of the device as they were.
C9_ReleaseClearsMasterOnly ==
  /\ [](consumer = "released" => ~pdev.is_busmaster)
  /\ [][ (consumer = "open" /\ consumer' = "released")
           => /\ UNCHANGED << evts, entries, irqaction, refs, msix_info >>
              /\ pdev'.msix_enabled = pdev.msix_enabled
              /\ pdev'.enabled = pdev.enabled ]_vars

\* The file was released while a slot holds a handle whose handler is
\* registered.
C9_Witness ==
  /\ phase = "claimed"
  /\ consumer = "released"
  /\ \E i \in DOMAIN evts :
       evts[i] \in Handles /\ irqaction[entries[i].vector] = evts[i]

\* C10: once remove() has run to its end, whatever slots were bound, no
\* vector handler is registered or executing, the slots were all emptied,
\* and no handle is signalled any more.
C10_TeardownSilences ==
  /\ [](rm.pc \in {"finish", "done"} =>
          /\ \A q \in Irqs : irqaction[q] = NULL /\ running[q] = NULL
          /\ \A i \in DOMAIN evts : evts[i] = NULL)
  /\ [][ phase = "removed" => signals' = signals ]_vars

\* remove() ran to its end after the last ioctl had bound a handle.
C10_Witness ==
  /\ phase = "removed"
  /\ call[1].ret = "0"
  /\ call[1].evt \in Handles

\* The consumer's file goes away in this step: release() runs, or the file
\* is closed after the binding was unregistered.
FileCloses == consumer = "open" /\ consumer' # "open"

C12_LegacyHandler ==
  [][ (intx' # intx /\ intx'[Len(intx')] # "rearm") =>
        LET ret == intx'[Len(intx')] IN
          /\ UNCHANGED << signals, refs, irqaction, running, evts >>
          /\ ~pdev.intx_pending => (ret = IRQ_NONE /\ pdev' = pdev)
          /\ pdev.intx_pending =>
               (ret = IRQ_HANDLED /\ pdev'.intx_disabled /\ ~pdev.intx_disabled)
          /\ pdev.intx_disabled => (ret = IRQ_NONE /\ pdev' = pdev) ]_vars

\* Handled, then an invocation before the re-arm, then handled again after
\* the re-arm.
C12_Witness == intx = << IRQ_HANDLED, IRQ_NONE, "rearm", IRQ_HANDLED >>

\* The slots whose hardware vector is delivered on irq q.
SlotsOf(q) == {i \in DOMAIN entries : entries[i].vector = q}

\* C13: when the handler invoked for a firing of a vector completes and the
\* vector's slot is bound to a handle, that handle has been signalled exactly
\* once more and no other handle has been signalled.
C13_FiringSignalsBoundHandle ==
  [][ \A q \in Irqs :
        (running[q] # NULL /\ running'[q] = NULL) =>
          \A i \in SlotsOf(q) :
            evts[i] \in Handles =>
              /\ signals'[evts[i]] = signals[evts[i]] + 1
              /\ \A h \in Handles \ {evts[i]} : signals'[h] = signals[h] ]_vars

\* Slots 0 and 1 are bound to A and B and vector 0 has fired: its handler
\* is executing.
C13_Witness ==
  /\ DOMAIN evts = 0 .. 1
  /\ evts[0] = "A"
  /\ evts[1] = "B"
  /\ running[entries[0].vector] = "A"
  /\ signals = [h \in Handles |-> 0]

\* Caller t's last ioctl passed the negative "disable" descriptor and has
\* returned, and no teardown has begun since.
SentinelDone(t) ==
  /\ phase = "claimed"
  /\ call[t].pc = "idle"
  /\ call[t].ret # "none"
  /\ call[t].fd < 0

\* C14: a bind with a negative descriptor, whatever the vector index,
\* returns 0, changes no slot, no handler registration and no reference, and
\* disables delivery: after it no vector is delivered to its handler any
\* more, so that no bound handle is signalled by a firing that follows it.
C14_SentinelDisablesDelivery ==
  /\ [](\A t \in Callers : SentinelDone(t) => call[t].ret = "0")
  /\ [][ \A t \in Callers :
           (call[t].pc = "idle" /\ call'[t] # call[t] /\ call'[t].fd < 0)
             => /\ call'[t].pc = "idle"
                /\ UNCHANGED << evts, entries, irqaction, refs >> ]_vars
  /\ [][ (\E t \in Callers : SentinelDone(t))
           => \A q \in Irqs : running[q] = NULL => running'[q] = NULL ]_vars

\* The interrupt mode of the binding: the legacy line armed (lines 222-225),
\* the vector table allocated and enabled (line 228), or neither.
InterruptMode ==
  IF pdev.irq # NoIrq THEN "LegacyLine"
  ELSE IF pdev.msix_enabled /\ msix_info.entries # NULL /\ buffer = "live"
    THEN "VectorTable"
  ELSE "none"

\* C15: every successful claim has selected one interrupt mode, LegacyLine
\* or VectorTable, and the mode stays what it is for as long as the binding
\* is claimed.
C15_ExactlyOneMode ==
  /\ [](phase = "claimed" => InterruptMode \in {"LegacyLine", "VectorTable"})
  /\ [][ (phase = "claimed" /\ phase' = "claimed")
           => InterruptMode' = InterruptMode ]_vars

\* C16, as stated: when remove() releases a handle reference (line 273), no
\* vector handler of any slot is registered or executing any more.
C16_DeregisterAllThenRelease ==
  [][ (rm.pc = "put" /\ refs' # refs)
        => \A q \in Irqs : irqaction[q] = NULL /\ running[q] = NULL ]_vars

\* C16, amended: remove() takes the bound slots one at a time in index
\* order: when it releases a slot's reference (line 273) that slot's own
\* handler is deregistered and not executing and every earlier slot is
\* already empty with its handler deregistered; the handlers of later slots
\* may still be registered, each backed by a reference that is still held.
C16_DeregisterSlotThenRelease ==
  [][ (rm.pc = "put" /\ rm'.pc # "put")
        => /\ irqaction[rm.irq] = NULL
           /\ running[rm.irq] = NULL
           /\ \A j \in DOMAIN evts :
                j < rm.i => /\ evts[j] = NULL
                            /\ irqaction[entries[j].vector] = NULL
                            /\ running[entries[j].vector] = NULL
           /\ \A h \in Handles :
                refs'[h] >= Cardinality({q \in Irqs : irqaction'[q] = h
                                                    \/ running'[q] = h}) ]_vars

\* remove() is about to release slot 0's reference while slot 1's handler is
\* still registered.
C16_Witness ==
  /\ rm.pc = "put"
  /\ rm.i = 0
  /\ rm.evt \in Handles
  /\ 1 \in DOMAIN evts
  /\ evts[1] \in Handles
  /\ irqaction[entries[1].vector] = evts[1]

\* The number of slots bound to handle h.
SlotsBound(h) == Cardinality({i \in DOMAIN evts : evts[i] = h})

\* Every caller has issued a bind and all of them have returned; no teardown
\* has begun.
AllReturned ==
  /\ phase = "claimed"
  /\ \A t \in Callers : call[t].pc = "idle" /\ call[t].ret # "none"

\* C17: binds issued concurrently against the same vector behave as if
\* serialized: when all have returned, every reference taken has been
\* released exactly once except the one held for the slot's handle, and the
\* slot's vector has a handler registered exactly when the slot holds a
\* handle, with that handle.
C17_ConcurrentBindsSerialized ==
  AllReturned =>
    /\ \A h \in Handles : refs[h] = SlotsBound(h)
    /\ \A i \in DOMAIN evts : irqaction[entries[i].vector] = evts[i]

\* The binding is claimed and no ioctl is executing or was cut short by a
\* kernel fault.
ControlIdle == phase = "claimed" /\ \A t \in Callers : call[t].pc = "idle"

\* C18: whenever no control-path operation is in progress, a slot holds
\* handle h exactly when the vector handler is registered on that slot's irq
\* with h, and every registered handler belongs to a slot; a bind whose
\* request_irq was refused has left its slot empty and no handler registered.
C18_SlotMatchesHandler ==
  ControlIdle =>
    /\ \A i \in DOMAIN evts, h \in Ptrs \ {NULL} :
         evts[i] = h <=> irqaction[entries[i].vector] = h
    /\ \A q \in Irqs : irqaction[q] # NULL => SlotsOf(q) # {}
    /\ \A t \in Callers :
         (call[t].pc = "idle" /\ call[t].ret = "-EBUSY")
           => /\ evts[call[t].vector] = NULL
              /\ irqaction[call[t].irq] = NULL

\* A rebind of a bound slot whose handler registration was refused, while
\* another slot is bound.
C18_Witness ==
  /\ ControlIdle
  /\ call[1].pc = "idle"
  /\ call[1].ret = "-EBUSY"
  /\ call[1].old \in Handles
  /\ \E i \in DOMAIN evts : evts[i] \in Handles

\* C19: over any sequential run of binds, rebinds, failed binds and
\* teardown the references are balanced: no reference is released that was
\* not taken, between ioctls the references held on a handle are as many as
\* the slots bound to it, and once remove() has stopped running no reference
\* is held on any handle.
C19_ReferencesBalanced ==
  /\ \A h \in Handles : refs[h] >= 0
  /\ ControlIdle => \A h \in Handles : refs[h] = SlotsBound(h)
  /\ rm.pc \in {"done", "dead"} => \A h \in Handles : refs[h] = 0

\* C20: in a registered binding the recorded vector count is non-zero only
\* while the table memory is allocated and both array pointers point into
\* it, so that a bind whose index passed the range check reads and writes
\* slots of the live table only: no ioctl faults on the table and none
\* writes outside it.
C20_CountOnlyWithTable ==
  phase = "claimed" =>
    /\ msix_info.nvecs # 0 =>
         /\ buffer = "live"
         /\ msix_info.entries # NULL
         /\ msix_info.evts # NULL
         /\ DOMAIN entries = 0 .. msix_info.nvecs - 1
         /\ DOMAIN evts = 0 .. msix_info.nvecs - 1
    /\ \A t \in Callers :
         (call[t].fd >= 0 /\ ~vector_rejected(call[t].vector, msix_info.nvecs)
            /\ call[t].ret # "none")
           => /\ call[t].vector \in DOMAIN evts
              /\ fault # "oob_write"

=============================================================================
